---- MODULE Spec2Model ----
(***************************************************************************)
(* A model of main.py: the /calendar.ics handler, which loads event rows   *)
(* from a CSV file, parses their timestamps and serialises an iCalendar    *)
(* document.                                                               *)
(*                                                                         *)
(* Text is a sequence of tokens.  A token is a string standing for one     *)
(* character (CR, LF, SP, a letter, a digit) or for a run of characters    *)
(* holding no line break and no whitespace ("BEGIN:VEVENT", "UID:", "e1"). *)
(* A timestamp string is represented by what the parser reads from it: its *)
(* shape (kind), whether whitespace surrounds it (pad), the civil date and *)
(* time it spells (dt) and its zone suffix (tzk, off).                     *)
(***************************************************************************)
EXTENDS Integers, Sequences, FiniteSets, TLC

VARIABLES rows, pc, events, now, lines, ics_body, pin, pout

vars == <<rows, pc, events, now, lines, ics_body, pin, pout>>

\* ------------------------------------------------------------------ bounds

\* The longest CSV file (in data rows) a request reads.
MaxRows == 3

\* ------------------------------------------------------------ characters

CR == "\r"
LF == "\n"
SP == " "
BSL == "\\"

\* str.strip() with no argument removes these from both ends.
Whitespace == {SP, CR, LF}

\* row.get(key) of a key the row lacks (or a short row's restval): None.
NoneText == <<"<None>">>

RECURSIVE LStrip(_)
LStrip(t) ==
  IF t = <<>> THEN <<>>
  ELSE IF Head(t) \in Whitespace THEN LStrip(Tail(t)) ELSE t

RECURSIVE RStrip(_)
RStrip(t) ==
  IF t = <<>> THEN <<>>
  ELSE IF t[Len(t)] \in Whitespace THEN RStrip(SubSeq(t, 1, Len(t) - 1)) ELSE t

\* str.strip()
Strip(t) == RStrip(LStrip(t))

\* str.replace('\r\n', '\\n'): left to right, non-overlapping.
RECURSIVE ReplaceCRLF(_)
ReplaceCRLF(t) ==
  IF t = <<>> THEN <<>>
  ELSE IF Len(t) >= 2 /\ t[1] = CR /\ t[2] = LF
       THEN <<BSL, "n">> \o ReplaceCRLF(SubSeq(t, 3, Len(t)))
       ELSE <<Head(t)>> \o ReplaceCRLF(Tail(t))

\* str.replace('\n', '\\n')
RECURSIVE ReplaceLF(_)
ReplaceLF(t) ==
  IF t = <<>> THEN <<>>
  ELSE IF Head(t) = LF THEN <<BSL, "n">> \o ReplaceLF(Tail(t))
       ELSE <<Head(t)>> \o ReplaceLF(Tail(t))

\* "\r\n".join(ls)
RECURSIVE JoinCRLF(_)
JoinCRLF(ls) ==
  IF ls = <<>> THEN <<>>
  ELSE IF Len(ls) = 1 THEN ls[1]
  ELSE ls[1] \o <<CR, LF>> \o JoinCRLF(Tail(ls))

\* ------------------------------------------------- datetime (the library)

\* datetime.MINYEAR, datetime.MAXYEAR: the years a datetime can hold.
MINYEAR == 1
MAXYEAR == 9999

IsLeap(y) == y % 4 = 0 /\ (y % 100 # 0 \/ y % 400 = 0)

DaysInMonth(y, m) ==
  CASE m \in {1, 3, 5, 7, 8, 10, 12} -> 31
    [] m \in {4, 6, 9, 11} -> 30
    [] OTHER -> IF IsLeap(y) THEN 29 ELSE 28

RECURSIVE DaysBeforeMonth(_, _)
DaysBeforeMonth(y, m) ==
  IF m = 1 THEN 0 ELSE DaysBeforeMonth(y, m - 1) + DaysInMonth(y, m - 1)

DaysBeforeYear(y) ==
  LET p == y - 1 IN p * 365 + (p \div 4) - (p \div 100) + (p \div 400)

\* The proleptic Gregorian ordinal of a date; 0001-01-01 is day 1.
Ymd2Ord(y, m, d) == DaysBeforeYear(y) + DaysBeforeMonth(y, m) + d

MaxOrdinal == Ymd2Ord(MAXYEAR, 12, 31)

\* The date of an ordinal, by 400-, 100-, 4- and 1-year cycles.
Ord2Ymd(ord) ==
  LET n0   == ord - 1
      n400 == n0 \div 146097
      r400 == n0 % 146097
      n100 == r400 \div 36524
      r100 == r400 % 36524
      n4   == r100 \div 1461
      r4   == r100 % 1461
      n1   == r4 \div 365
      n    == r4 % 365
      year == n400 * 400 + 1 + n100 * 100 + n4 * 4 + n1
      m    == CHOOSE k \in 1..12 :
                /\ DaysBeforeMonth(year, k) <= n
                /\ n < DaysBeforeMonth(year, k) + DaysInMonth(year, k)
  IN IF n1 = 4 \/ n100 = 4 THEN <<year - 1, 12, 31>>
     ELSE <<year, m, n - DaysBeforeMonth(year, m) + 1>>

\* The results of _parse_iso_datetime: None, a UTC datetime, or an exception
\* that leaves the function.
ZeroDT == <<0, 0, 0, 0, 0, 0>>
NoneResult == [tag |-> "none", dt |-> ZeroDT]
RaiseResult == [tag |-> "raise", dt |-> ZeroDT]
DtResult(dt) == [tag |-> "dt", dt |-> dt]

\* A mutant of AsTimezoneUTC: the offset is added, not subtracted.
AsTimezoneUTC_Adds(dt, off) ==
  LET mins == dt[4] * 60 + dt[5] + off
      ord  == Ymd2Ord(dt[1], dt[2], dt[3]) + (mins \div 1440)
      mod  == mins % 1440
      ymd  == Ord2Ymd(ord)
  IN IF ord < 1 \/ ord > MaxOrdinal THEN RaiseResult
     ELSE DtResult(<<ymd[1], ymd[2], ymd[3], mod \div 60, mod % 60, dt[6]>>)

\* dt.astimezone(timezone.utc) of an aware datetime whose offset is `off`
\* minutes: (dt - offset), computed on the ordinal and the time of day;
\* OverflowError when the date leaves MINYEAR..MAXYEAR.
AsTimezoneUTC(dt, off) ==
  LET mins == dt[4] * 60 + dt[5] - off
      ord  == Ymd2Ord(dt[1], dt[2], dt[3]) + (mins \div 1440)
      mod  == mins % 1440
      ymd  == Ord2Ymd(ord)
  IN IF ord < 1 \/ ord > MaxOrdinal THEN RaiseResult
     ELSE DtResult(<<ymd[1], ymd[2], ymd[3], mod \div 60, mod % 60, dt[6]>>)

\* -------------------------------------------------------- timestamp text

\* kind: "missing" (None), "empty" (no character but whitespace), "garbage"
\*       (no timestamp), "iso" (zero-padded YYYY-MM-DDTHH:MM:SS), "loose"
\*       (the same fields, not zero-padded: 2025-1-5T3:4:5).
\* tzk:  "naive" (no suffix), "Z", "off" (a numeric offset of `off` minutes).
TsText(kind, pad, dt, tzk, off) ==
  [kind |-> kind, pad |-> pad, dt |-> dt, tzk |-> tzk, off |-> off]

NoneTs == TsText("missing", FALSE, ZeroDT, "naive", 0)
EmptyTs == TsText("empty", FALSE, ZeroDT, "naive", 0)

\* s.strip() of a timestamp string.
StripTs(s) == [s EXCEPT !.pad = FALSE]

\* if s.endswith('Z'): s = s[:-1] + '+00:00'
NormalizeZ(s) == IF s.tzk = "Z" THEN [s EXCEPT !.tzk = "off", !.off = 0] ELSE s

\* datetime.fromisoformat(s) accepts the zero-padded form, with or without a
\* numeric offset, and nothing else of what TsText spells.
FromIsoFormatAccepts(s) == s.kind = "iso" /\ ~s.pad /\ s.tzk \in {"naive", "off"}

\* datetime.strptime(s, "%Y-%m-%dT%H:%M:%S") accepts the fields zero-padded or
\* not, and no suffix.
StrptimeAccepts(s) == s.kind \in {"iso", "loose"} /\ ~s.pad /\ s.tzk = "naive"

\* _parse_iso_datetime(s)
_parse_iso_datetime(s0) ==
  IF s0.kind = "missing" \/ (s0.kind = "empty" /\ ~s0.pad) THEN NoneResult
  ELSE LET s == NormalizeZ(StripTs(s0))
       IN IF FromIsoFormatAccepts(s)
          THEN IF s.tzk = "naive" THEN DtResult(s.dt)
               ELSE AsTimezoneUTC(s.dt, s.off)
          ELSE IF StrptimeAccepts(s) THEN DtResult(s.dt)
          ELSE NoneResult

\* ---------------------------------------------------------- _format_ics_dt

Digit(d) ==
  CASE d = 0 -> "0" [] d = 1 -> "1" [] d = 2 -> "2" [] d = 3 -> "3"
    [] d = 4 -> "4" [] d = 5 -> "5" [] d = 6 -> "6" [] d = 7 -> "7"
    [] d = 8 -> "8" [] OTHER -> "9"

Pad2(n) == <<Digit((n \div 10) % 10), Digit(n % 10)>>

\* %Y of a year of four digits (every year the builder formats here).
Pad4(n) == Pad2(n \div 100) \o Pad2(n % 100)

\* dt.strftime('%Y%m%dT%H%M%SZ')
_format_ics_dt(dt) ==
  Pad4(dt[1]) \o Pad2(dt[2]) \o Pad2(dt[3]) \o <<"T">>
    \o Pad2(dt[4]) \o Pad2(dt[5]) \o Pad2(dt[6]) \o <<"Z">>

\* ------------------------------------------------------------------- rows

\* The column names _load_events_from_csv looks up.
TextKeys == {"uid", "id", "title", "summary", "description", "url", "location"}
TsKeys == {"dtstart", "start", "dtend", "end"}

\* Column names of a header written in another letter case.  csv.DictReader
\* keeps a header's spelling, so these are keys of their own.
CaseTextKeys == {"UID", "Title"}
CaseTsKeys == {"DTSTART"}

Keys == TextKeys \cup TsKeys \cup CaseTextKeys \cup CaseTsKeys

\* A row maps every key to its value, or to None when the file has no such
\* column (row.get(key) is None either way).
BlankRow == [k \in Keys |-> IF k \in TsKeys \cup CaseTsKeys THEN NoneTs ELSE NoneText]

\* Python truthiness of row.get(key): None and '' are false.
TruthyText(v) == v # NoneText /\ v # <<>>
TruthyTs(v) == v.kind # "missing" /\ ~(v.kind = "empty" /\ ~v.pad)

\* A mutant of FirstTruthyText: a whitespace-only value does not shadow.
FirstTruthyText_Stripped(a, b) ==
  IF TruthyText(a) /\ Strip(a) # <<>> THEN a
  ELSE IF TruthyText(b) THEN b ELSE <<>>

\* (row.get(a) or row.get(b) or '')
FirstTruthyText(a, b) ==
  IF TruthyText(a) THEN a ELSE IF TruthyText(b) THEN b ELSE <<>>

\* A mutant of FirstTruthyTs: a whitespace-only value does not shadow.
FirstTruthyTs_Stripped(a, b) ==
  IF TruthyTs(a) /\ a.kind # "empty" THEN a
  ELSE IF TruthyTs(b) THEN b ELSE EmptyTs

\* (row.get(a) or row.get(b) or '') of two timestamp columns
FirstTruthyTs(a, b) ==
  IF TruthyTs(a) THEN a ELSE IF TruthyTs(b) THEN b ELSE EmptyTs

\* str(uuid.uuid4()): the n-th identifier generated in a request.  Generated
\* identifiers differ from each other and from every identifier of the file.
UuidPool == <<"uuid#1", "uuid#2", "uuid#3", "uuid#4", "uuid#5", "uuid#6">>
Uuid4(n) == <<UuidPool[n]>>
IsGenerated(uid) == \E n \in DOMAIN UuidPool : uid = Uuid4(n)

\* A mutant of AppendEvent: the new event goes to the front.
AppendEvent_Front(evs, ev) == <<ev>> \o evs

\* events.append({...})
AppendEvent(evs, ev) == Append(evs, ev)

\* The loop of _load_events_from_csv over the rows left to read: `acc` is
\* the events list so far, `n` the identifiers generated so far.  An
\* exception of _parse_iso_datetime leaves the loop and the function.
RECURSIVE LoadRows(_, _, _)
LoadRows(rs, acc, n) ==
  IF rs = <<>> THEN [raised |-> FALSE, events |-> acc]
  ELSE
    LET row         == Head(rs)
        uid0        == Strip(FirstTruthyText(row["uid"], row["id"]))
        n1          == IF uid0 = <<>> THEN n + 1 ELSE n
        uid         == IF uid0 = <<>> THEN Uuid4(n1) ELSE uid0
        title       == Strip(FirstTruthyText(row["title"], row["summary"]))
        description == Strip(FirstTruthyText(row["description"], NoneText))
        dtstart_raw == StripTs(FirstTruthyTs(row["dtstart"], row["start"]))
        dtend_raw   == StripTs(FirstTruthyTs(row["dtend"], row["end"]))
        url         == Strip(FirstTruthyText(row["url"], NoneText))
        location    == Strip(FirstTruthyText(row["location"], NoneText))
        dtstart     == _parse_iso_datetime(dtstart_raw)
        dtend       == _parse_iso_datetime(dtend_raw)
        ev          == [uid |-> uid, title |-> title, description |-> description,
                        dtstart |-> dtstart, dtend |-> dtend,
                        url |-> url, location |-> location]
    IN IF dtstart.tag = "raise" \/ dtend.tag = "raise"
       THEN [raised |-> TRUE, events |-> <<>>]
       ELSE IF dtstart.tag = "none" THEN LoadRows(Tail(rs), acc, n1)
       ELSE LoadRows(Tail(rs), AppendEvent(acc, ev), n1)

\* _load_events_from_csv(csv_path), the file's rows given
_load_events_from_csv(rs) == LoadRows(rs, <<>>, 0)

\* --------------------------------------------------------------- calendar

HeaderLines ==
  << <<"BEGIN:VCALENDAR">>,
     <<"PRODID:-//WhatsUpInSpace//Railway Flask ICS//EN">>,
     <<"VERSION:2.0">>,
     <<"CALSCALE:GREGORIAN">>,
     <<"METHOD:PUBLISH">>,
     <<"X-WR-CALNAME:Whats Up 1.2">>,
     <<"X-WR-CALDESC:Whats Up 1.21">>,
     <<"X-PUBLISHED-TTL:PT1M">>,
     <<"REFRESH-INTERVAL;VALUE=DURATION:PT1M">> >>

\* ev['description'].replace('\r\n', '\\n').replace('\n', '\\n')
EscapeDescription(d) == ReplaceLF(ReplaceCRLF(d))

\* The lines one pass of the loop `for ev in events` appends.
EventLines(ev, t) ==
  LET desc == EscapeDescription(ev.description)
  IN   << <<"BEGIN:VEVENT">>,
          <<"UID:">> \o ev.uid,
          <<"DTSTAMP:">> \o _format_ics_dt(t),
          <<"DTSTART:">> \o _format_ics_dt(ev.dtstart.dt) >>
    \o (IF ev.dtend.tag = "dt"
        THEN << <<"DTEND:">> \o _format_ics_dt(ev.dtend.dt) >> ELSE <<>>)
    \o (IF ev.title # <<>> THEN << <<"SUMMARY:">> \o ev.title >> ELSE <<>>)
    \o (IF desc # <<>> THEN << <<"DESCRIPTION:">> \o desc >> ELSE <<>>)
    \o (IF ev.location # <<>> THEN << <<"LOCATION:">> \o ev.location >> ELSE <<>>)
    \o (IF ev.url # <<>> THEN << <<"URL:">> \o ev.url >> ELSE <<>>)
    \o << <<"END:VEVENT">> >>

RECURSIVE AllEventLines(_, _)
AllEventLines(evs, t) ==
  IF evs = <<>> THEN <<>>
  ELSE EventLines(Head(evs), t) \o AllEventLines(Tail(evs), t)

\* The list `lines` when the loop has ended and the footer is appended.
CalendarLines(evs, t) ==
  HeaderLines \o AllEventLines(evs, t) \o << <<"END:VCALENDAR">> >>

\* "\r\n".join(lines) + "\r\n"
IcsBody(ls) == JoinCRLF(ls) \o <<CR, LF>>

\* ----------------------------------------------------------------- inputs

\* 2025-06-01T10:00:00Z
TsA == TsText("iso", FALSE, <<2025, 6, 1, 10, 0, 0>>, "Z", 0)
\* 2025-01-01T00:30:00+01:00, which is 2024-12-31T23:30:00Z
TsB == TsText("iso", FALSE, <<2025, 1, 1, 0, 30, 0>>, "off", 60)
\* "  "
TsBlank == TsText("empty", TRUE, ZeroDT, "naive", 0)
\* "not-a-date"
TsBad == TsText("garbage", FALSE, ZeroDT, "naive", 0)
\* 9999-12-31T23:30:00-01:00
TsOver == TsText("iso", FALSE, <<9999, 12, 31, 23, 30, 0>>, "off", -60)

Row(uid, title, dtstart) ==
  [BlankRow EXCEPT !["uid"] = uid, !["title"] = title, !["dtstart"] = dtstart]

\* The rows a file is made of.
RowPlain   == Row(<<"e1">>, <<"L">>, TsA)
RowSynonym == [BlankRow EXCEPT !["id"] = <<"e1">>, !["summary"] = <<"M">>,
                               !["start"] = TsB, !["end"] = TsA]
RowNoUid   == [BlankRow EXCEPT !["title"] = <<"N">>, !["dtstart"] = TsB,
                               !["dtend"] = TsBad,
                               !["description"] = <<"a", LF, "b", CR, LF, "c">>,
                               !["url"] = <<"u">>]
RowBadStart == Row(<<"e2">>, <<"B">>, TsBad)
RowShadowedStart == [Row(<<"e3">>, <<"S">>, TsBlank) EXCEPT !["start"] = TsA]
RowShadowedUid == [Row(<<SP>>, NoneText, TsA) EXCEPT !["id"] = <<"e4">>,
                                                     !["dtend"] = TsBlank]
RowUpperStart == [BlankRow EXCEPT !["uid"] = <<"e5">>, !["DTSTART"] = TsA]
RowUpperTitle == [Row(NoneText, NoneText, TsA) EXCEPT !["UID"] = <<"e6">>,
                                                      !["Title"] = <<"T">>]
RowDescCR == [Row(<<"e7">>, NoneText, TsA) EXCEPT !["description"] = <<"a", CR, "b">>]
RowTitleLF == Row(<<"e8">>, <<"a", LF, "b">>, TsA)
RowTitleForged == Row(<<"e9">>, <<"x", CR, LF, "BEGIN:VEVENT">>, TsA)
RowLocationForged ==
  [Row(<<"e10">>, NoneText, TsB) EXCEPT
     !["location"] = <<"x", CR, LF, "DTEND:", "2", "0", "2", "5">>]
RowOverflow == Row(<<"e11">>, <<"O">>, TsOver)

RowSet == {RowPlain, RowSynonym, RowNoUid, RowBadStart, RowShadowedStart,
           RowShadowedUid, RowUpperStart, RowUpperTitle, RowDescCR, RowTitleLF,
           RowTitleForged, RowLocationForged, RowOverflow}

RECURSIVE SeqsUpTo(_, _)
SeqsUpTo(S, n) ==
  IF n = 0 THEN {<<>>}
  ELSE LET shorter == SeqsUpTo(S, n - 1)
       IN shorter \cup {Append(q, x) : q \in shorter, x \in S}

\* datetime.now(timezone.utc) at line 92
Nows == {<<2026, 11, 4, 12, 0, 0>>, <<2026, 12, 31, 23, 59, 59>>}

\* The timestamp strings _parse_iso_datetime is applied to on its own.
Dates == {<<2025, 12, 31, 23, 30, 0>>, <<2025, 1, 1, 0, 15, 0>>,
          <<2024, 2, 29, 12, 0, 0>>, <<2024, 3, 1, 0, 30, 0>>,
          <<2025, 3, 1, 0, 30, 0>>, <<2100, 3, 1, 0, 10, 7>>,
          <<2000, 2, 28, 23, 45, 59>>,
          <<1, 1, 1, 0, 30, 0>>, <<9999, 12, 31, 23, 30, 0>>}
Offsets == {0, 60, -60, 330, -720, 840, -1}

TsInputs ==
  {NoneTs, EmptyTs, TsBlank, TsBad, TsText("garbage", TRUE, ZeroDT, "naive", 0)}
    \cup {TsText(k, p, d, "naive", 0) : k \in {"iso", "loose"}, p \in BOOLEAN, d \in Dates}
    \cup {TsText(k, p, d, "Z", 0) : k \in {"iso", "loose"}, p \in BOOLEAN, d \in Dates}
    \cup {TsText(k, p, d, "off", o) :
            k \in {"iso", "loose"}, p \in BOOLEAN, d \in Dates, o \in Offsets}

\* ------------------------------------------------------- the state machine

\* A request for /calendar.ics is about to be served; the file holds `rows`.
Init ==
  /\ rows \in SeqsUpTo(RowSet, MaxRows)
  /\ pc = "start"
  /\ events = <<>>
  /\ now = ZeroDT
  /\ lines = <<>>
  /\ ics_body = <<>>
  /\ pin = NoneTs
  /\ pout = NoneResult

\* calendar(): the whole handler.  An exception of the loader leaves the
\* handler with no document.
calendar ==
  /\ pc = "start"
  /\ LET r == _load_events_from_csv(rows)
     IN IF r.raised
        THEN /\ pc' = "raised"
             /\ UNCHANGED <<events, now, lines, ics_body>>
        ELSE /\ events' = r.events
             /\ now' \in Nows
             /\ lines' = CalendarLines(events', now')
             /\ ics_body' = IcsBody(lines')
             /\ pc' = "done"
  /\ UNCHANGED <<rows, pin, pout>>

Next == calendar

Spec == Init /\ [][Next]_vars

\* _parse_iso_datetime applied to one string.
InitParse ==
  /\ rows = <<>>
  /\ pc = "parse"
  /\ events = <<>>
  /\ now = ZeroDT
  /\ lines = <<>>
  /\ ics_body = <<>>
  /\ pin \in TsInputs
  /\ pout = NoneResult

ParseCall ==
  /\ pc = "parse"
  /\ pout' = _parse_iso_datetime(pin)
  /\ pc' = "parsed"
  /\ UNCHANGED <<rows, events, now, lines, ics_body, pin>>

NextParse == ParseCall

SpecParse == InitParse /\ [][NextParse]_vars

\* ============================================================== the claims

\* ----------------------------------------------- reading the document back

LineBreaks == {CR, LF}

\* The document cut at every CRLF: its lines as a calendar client reads them.
RECURSIVE SplitCRLF(_, _)
SplitCRLF(b, cur) ==
  IF b = <<>> THEN <<cur>>
  ELSE IF Len(b) >= 2 /\ b[1] = CR /\ b[2] = LF
       THEN <<cur>> \o SplitCRLF(SubSeq(b, 3, Len(b)), <<>>)
       ELSE SplitCRLF(Tail(b), Append(cur, Head(b)))

\* What follows the last CRLF is no line when it is empty.
DocLines(b) ==
  LET p == SplitCRLF(b, <<>>)
  IN IF p[Len(p)] = <<>> THEN SubSeq(p, 1, Len(p) - 1) ELSE p

LineHead(l) == IF l = <<>> THEN "" ELSE l[1]

CountLine(ls, l) == Cardinality({i \in DOMAIN ls : ls[i] = l})
CountHead(ls, h) == Cardinality({i \in DOMAIN ls : LineHead(ls[i]) = h})

\* The k-th smallest member of a set of numbers.
Kth(S, k) == CHOOSE x \in S : Cardinality({y \in S : y <= x}) = k

\* -------------------------------------------------- what a row should give

\* The start and the end a row states, and whether they parse to an instant.
StartOf(row) == StripTs(FirstTruthyTs(row["dtstart"], row["start"]))
EndOf(row) == StripTs(FirstTruthyTs(row["dtend"], row["end"]))
StartParses(row) == _parse_iso_datetime(StartOf(row)).tag = "dt"
EndParses(row) == _parse_iso_datetime(EndOf(row)).tag = "dt"

\* The rows that survive, in the order of the file.
Survivors(rs) == SelectSeq(rs, StartParses)

\* ---------------------------------------------------------------------- C1
\* C1: the document starts with the line BEGIN:VCALENDAR, ends with the line
\* END:VCALENDAR followed by CRLF, and every line break in it is a CRLF: no
\* LF without a CR before it, no CR without an LF after it.
C1_DocumentWellFormed ==
  pc = "done" =>
    LET b == ics_body
        n == Len(b)
    IN /\ n >= 6
       /\ b[1] = "BEGIN:VCALENDAR" /\ b[2] = CR /\ b[3] = LF
       /\ b[n - 3] = LF /\ b[n - 2] = "END:VCALENDAR" /\ b[n - 1] = CR /\ b[n] = LF
       /\ \A i \in 1..n :
            /\ b[i] = LF => i > 1 /\ b[i - 1] = CR
            /\ b[i] = CR => i < n /\ b[i + 1] = LF

\* ---------------------------------------------------------------------- C2
\* C2: the document holds as many BEGIN:VEVENT lines, END:VEVENT lines and
\* DTSTART lines as there are rows whose start parses to an instant.
C2_OneBlockPerSurvivor ==
  pc = "done" =>
    LET L == DocLines(ics_body)
        n == Len(Survivors(rows))
    IN /\ CountLine(L, <<"BEGIN:VEVENT">>) = n
       /\ CountLine(L, <<"END:VEVENT">>) = n
       /\ CountHead(L, "DTSTART:") = n

\* The same count on the list `lines` the handler builds, before it is joined.
EmittedOneBlockPerSurvivor ==
  pc = "done" =>
    LET n == Len(Survivors(rows))
    IN /\ CountLine(lines, <<"BEGIN:VEVENT">>) = n
       /\ CountLine(lines, <<"END:VEVENT">>) = n
       /\ CountHead(lines, "DTSTART:") = n

\* ---------------------------------------------------------------------- C3
\* What identifies a row's block: its UID line (a generated identifier read
\* as "generated") and its DTSTART line.
UidKey(uid) == IF IsGenerated(uid) THEN <<"UID:", "generated">> ELSE <<"UID:">> \o uid

RowKey(row) ==
  LET uid0 == Strip(FirstTruthyText(row["uid"], row["id"]))
  IN << IF uid0 = <<>> THEN <<"UID:", "generated">> ELSE <<"UID:">> \o uid0,
        <<"DTSTART:">> \o _format_ics_dt(_parse_iso_datetime(StartOf(row)).dt) >>

RECURSIVE RowKeys(_)
RowKeys(rs) ==
  IF rs = <<>> THEN <<>> ELSE <<RowKey(Head(rs))>> \o RowKeys(Tail(rs))

\* The blocks of `lines`, first to last: a block starts at a BEGIN:VEVENT
\* line; its UID line is the next line and its DTSTART line the third after.
RECURSIVE BlockKeys(_, _)
BlockKeys(ls, i) ==
  IF i > Len(ls) THEN <<>>
  ELSE IF ls[i] = <<"BEGIN:VEVENT">>
       THEN << <<UidKey(Tail(ls[i + 1])), ls[i + 3]>> >> \o BlockKeys(ls, i + 1)
       ELSE BlockKeys(ls, i + 1)

\* C3: the blocks of the document are those of the surviving rows, in the
\* order of the rows in the file.
C3_BlocksInRowOrder ==
  pc = "done" => BlockKeys(lines, 1) = RowKeys(Survivors(rows))

\* Three rows, the second dropped, the first and third kept with different
\* identifiers and the later start first.
C3_Witness ==
  /\ pc = "done"
  /\ Len(rows) = 3
  /\ StartParses(rows[1]) /\ ~StartParses(rows[2]) /\ StartParses(rows[3])
  /\ Len(events) = 2
  /\ events[1].uid # events[2].uid
  /\ events[1].dtstart.dt[1] > events[2].dtstart.dt[1]

\* ---------------------------------------------------------------------- C4
\* Text that neither fromisoformat nor the fixed pattern accepts.
Unparseable(s) ==
  \/ s.kind \in {"missing", "empty", "garbage"}
  \/ s.kind = "loose" /\ s.tzk # "naive"

\* C4: _parse_iso_datetime never raises: it returns None for None, '',
\* whitespace and unparseable text, and a UTC instant otherwise.
C4_NeverRaises ==
  pc = "parsed" =>
    /\ pout.tag # "raise"
    /\ Unparseable(pin) => pout = NoneResult
    /\ ~Unparseable(pin) => pout.tag = "dt"

\* ---------------------------------------------------------------------- C5
\* The civil calendar, one step at a time.  Years outside MINYEAR..MAXYEAR
\* are dates too.
CivilMonthLen(y, m) ==
  IF m = 2 THEN (IF (y % 400 = 0) \/ (y % 4 = 0 /\ y % 100 # 0) THEN 29 ELSE 28)
  ELSE IF m \in {4, 6, 9, 11} THEN 30 ELSE 31

PrevDay(dt) ==
  IF dt[3] > 1 THEN [dt EXCEPT ![3] = dt[3] - 1]
  ELSE IF dt[2] > 1
       THEN [dt EXCEPT ![2] = dt[2] - 1, ![3] = CivilMonthLen(dt[1], dt[2] - 1)]
       ELSE [dt EXCEPT ![1] = dt[1] - 1, ![2] = 12, ![3] = 31]

NextDay(dt) ==
  IF dt[3] < CivilMonthLen(dt[1], dt[2]) THEN [dt EXCEPT ![3] = dt[3] + 1]
  ELSE IF dt[2] < 12 THEN [dt EXCEPT ![2] = dt[2] + 1, ![3] = 1]
       ELSE [dt EXCEPT ![1] = dt[1] + 1, ![2] = 1, ![3] = 1]

PrevHour(dt) ==
  IF dt[4] > 0 THEN [dt EXCEPT ![4] = dt[4] - 1] ELSE [PrevDay(dt) EXCEPT ![4] = 23]

NextHour(dt) ==
  IF dt[4] < 23 THEN [dt EXCEPT ![4] = dt[4] + 1] ELSE [NextDay(dt) EXCEPT ![4] = 0]

PrevMinute(dt) ==
  IF dt[5] > 0 THEN [dt EXCEPT ![5] = dt[5] - 1] ELSE [PrevHour(dt) EXCEPT ![5] = 59]

NextMinute(dt) ==
  IF dt[5] < 59 THEN [dt EXCEPT ![5] = dt[5] + 1] ELSE [NextHour(dt) EXCEPT ![5] = 0]

RECURSIVE Earlier(_, _)
Earlier(dt, n) ==
  IF n = 0 THEN dt
  ELSE IF n >= 60 THEN Earlier(PrevHour(dt), n - 60)
  ELSE Earlier(PrevMinute(dt), n - 1)

RECURSIVE Later(_, _)
Later(dt, n) ==
  IF n = 0 THEN dt
  ELSE IF n >= 60 THEN Later(NextHour(dt), n - 60)
  ELSE Later(NextMinute(dt), n - 1)

\* The local time minus the offset.
UtcOf(dt, off) == IF off >= 0 THEN Earlier(dt, off) ELSE Later(dt, -off)

Representable(dt) == dt[1] \in MINYEAR..MAXYEAR

C6_DescriptionEscaped ==
  pc = "done" =>
    /\ CountHead(lines, "DESCRIPTION:")
         = Cardinality({k \in DOMAIN events : events[k].description # <<>>})
    /\ \A i \in DOMAIN lines :
         LineHead(lines[i]) = "DESCRIPTION:"
           => \A j \in DOMAIN lines[i] : lines[i][j] \notin LineBreaks

\* ---------------------------------------------------------------------- C7
\* The row with each column name of another letter case renamed to the
\* lower-case name.
CaseFold(row) ==
  [k \in Keys |->
     CASE k = "uid" /\ row["UID"] # NoneText -> row["UID"]
       [] k = "title" /\ row["Title"] # NoneText -> row["Title"]
       [] k = "dtstart" /\ row["DTSTART"].kind # "missing" -> row["DTSTART"]
       [] k \in CaseTextKeys -> NoneText
       [] k \in CaseTsKeys -> NoneTs
       [] OTHER -> row[k]]

RECURSIVE CaseFoldAll(_)
CaseFoldAll(rs) ==
  IF rs = <<>> THEN <<>> ELSE <<CaseFold(Head(rs))>> \o CaseFoldAll(Tail(rs))

\* C7: a file whose column names are in another letter case gives the events
\* and the document of the file with the lower-case names.
C7_CaseInsensitiveKeys ==
  pc = "done" =>
    LET folded == _load_events_from_csv(CaseFoldAll(rows))
    IN /\ ~folded.raised
       /\ events = folded.events
       /\ lines = CalendarLines(folded.events, now)

\* ---------------------------------------------------------------------- C8
\* C8: no two UID lines of a document are equal.
C8_UidsDistinct ==
  pc = "done" =>
    \A i, j \in DOMAIN lines :
      i < j /\ LineHead(lines[i]) = "UID:" /\ LineHead(lines[j]) = "UID:"
        => lines[i] # lines[j]

\* ---------------------------------------------------------------------- C9
\* The END:VEVENT lines of the document, and the k-th block: the lines after
\* the END:VEVENT line before it (or the start) up to its own END:VEVENT.
EndIndexes(L) == {i \in DOMAIN L : L[i] = <<"END:VEVENT">>}
BlockOf(L, k) ==
  LET E == EndIndexes(L)
      lo == IF k = 1 THEN 0 ELSE Kth(E, k - 1)
  IN (lo + 1)..Kth(E, k)

\* C9: every row whose start parses is kept, whatever its end; the block of
\* a kept row holds a DTEND line exactly when the row's end parsed, and a
\* DTEND line comes right after the DTSTART line.
C9_DtendIffEndParsed ==
  pc = "done" =>
    LET L == DocLines(ics_body)
        S == Survivors(rows)
    IN /\ Len(events) = Len(S)
       /\ Cardinality(EndIndexes(L)) = Len(S)
       /\ \A k \in DOMAIN S :
            LET D == {i \in BlockOf(L, k) : LineHead(L[i]) = "DTEND:"}
            IN /\ EndParses(S[k]) <=> D # {}
               /\ \A i \in D : i > 1 /\ LineHead(L[i - 1]) = "DTSTART:"

\* The same on the list `lines` the handler builds, before it is joined.
EmittedDtendIffEndParsed ==
  pc = "done" =>
    LET S == Survivors(rows)
    IN /\ Len(events) = Len(S)
       /\ Cardinality(EndIndexes(lines)) = Len(S)
       /\ \A k \in DOMAIN S :
            LET D == {i \in BlockOf(lines, k) : LineHead(lines[i]) = "DTEND:"}
            IN /\ EndParses(S[k]) <=> D # {}
               /\ \A i \in D : i > 1 /\ LineHead(lines[i - 1]) = "DTSTART:"

\* --------------------------------------------------------------------- C10
\* The second key of a pair is read only when the first is None or ''.
Unset(v) == v = NoneText \/ v = <<>>
UnsetTs(v) == v.kind = "missing" \/ (v.kind = "empty" /\ ~v.pad)

ConsultedText(row, first, second) == IF Unset(row[first]) THEN row[second] ELSE row[first]
ConsultedTs(row, first, second) == IF UnsetTs(row[first]) THEN row[second] ELSE row[first]

\* The text of a consulted value: nothing for None, else the value stripped.
TextOf(v) == IF v = NoneText THEN <<>> ELSE Strip(v)

KeptByConsulted(row) ==
  _parse_iso_datetime(ConsultedTs(row, "dtstart", "start")).tag = "dt"

WhitespaceOnly(v) == v # NoneText /\ v # <<>> /\ Strip(v) = <<>>

\* C10: each event comes from the values the first keys give unless they are
\* None or '': a whitespace-only dtstart drops the row whatever start holds,
\* and a whitespace-only uid gives a generated identifier whatever id holds.
C10_FirstKeyShadows ==
  pc = "done" =>
    LET S == SelectSeq(rows, KeptByConsulted)
    IN /\ Len(events) = Len(S)
       /\ \A k \in DOMAIN S :
            LET row == S[k]
                ev  == events[k]
                uid == TextOf(ConsultedText(row, "uid", "id"))
            IN /\ IF uid = <<>> THEN IsGenerated(ev.uid) ELSE ev.uid = uid
               /\ ev.title = TextOf(ConsultedText(row, "title", "summary"))
               /\ ev.dtstart = _parse_iso_datetime(ConsultedTs(row, "dtstart", "start"))
               /\ ev.dtend = _parse_iso_datetime(ConsultedTs(row, "dtend", "end"))

\* A dropped row with a whitespace-only dtstart and a start that parses, and
\* a kept row with a whitespace-only uid and an id, whose identifier is a
\* generated one.
C10_Witness ==
  /\ pc = "done"
  /\ Len(rows) = 2
  /\ rows[1]["dtstart"].kind = "empty" /\ rows[1]["dtstart"].pad
  /\ _parse_iso_datetime(rows[1]["start"]).tag = "dt"
  /\ WhitespaceOnly(rows[2]["uid"]) /\ Strip(rows[2]["id"]) # <<>>
  /\ rows[2]["id"] # NoneText
  /\ Len(events) = 1
  /\ IsGenerated(events[1].uid)

====
